---- MODULE Spec2Model ----
(***************************************************************************)
(* Model of WorkScheduler (src/python_exp/python_exp.py): two thread       *)
(* pools, one polling loop per worker, execution units dispatched to the   *)
(* execution pool, and the start()/shutdown() lifecycle, together with     *)
(* the in-memory gateways the loops and units read and write.              *)
(*                                                                         *)
(* Every thread of the program is a process of the model:                  *)
(*   - client threads (Callers) call start() and shutdown();               *)
(*   - each item of `loops` is one submission of _check_for_work_loop to   *)
(*     the polling pool;                                                   *)
(*   - each item of `units` is one submission of _execute_task to the      *)
(*     execution pool.                                                     *)
(* A step of the model is one access to shared state (the running flag,    *)
(* a pool, a gateway) by one thread.                                       *)
(***************************************************************************)
EXTENDS Naturals, Sequences, FiniteSets

\* ----------------------------------------------------------------- bounds
\* delay_seconds: sleep ticks between two polls of one loop.
DelaySeconds == 2

\* max_workers of the execution pool (10 in the source; the pool's
\* behaviour does not depend on the value, the model uses a small one so
\* that saturation is reached).
ExecCapacity == 2

\* Execution units submitted at most, over all loops.
MaxUnits == 3

\* ------------------------------------------------------- program constants
\* App(): the two ArticleRecords the ArticleDataGateway starts with.
InitialArticles == 2

\* WorkScheduler.workers, in list order: the names of the workers the
\* scheduler is built with (App registers a third one of the same kind).
WorkerList == <<"Worker-1", "Worker-2">>

Workers == {WorkerList[k] : k \in 1..Len(WorkerList)}

\* polling_pool = ThreadPoolExecutor(max_workers=len(workers))
PollCapacity == Len(WorkerList)

\* EndpointDataGateway._endpoints, in list order.
EndpointList == <<"https://feed.infoq.com/">>

Endpoints == {EndpointList[k] : k \in 1..Len(EndpointList)}

\* Client threads: the thread that runs App.start() and App.stop(), which
\* calls start() and shutdown() any number of times in any order, and a
\* second thread that calls start() once.
Callers == {"main", "other"}

VARIABLES
    running,        \* WorkScheduler.running
    execShutdown,   \* execution_pool._shutdown
    pollShutdown,   \* polling_pool._shutdown
    loops,          \* submissions to polling_pool, in submission order
    units,          \* submissions to execution_pool, in submission order
    status,         \* EndpointRecord.status of every endpoint
    articles,       \* len(ArticleDataGateway._articles)
    pc,             \* where each client thread is in start()/shutdown()
    idx,            \* position of start()'s `for worker in self.workers`
    wasRunning,     \* running flag at the time shutdown() was invoked
    wasPending,     \* number of units queued or running when shutdown()
                    \* was invoked
    last            \* how each client's latest call ended

vars == <<running, execShutdown, pollShutdown, loops, units, status,
          articles, pc, idx, wasRunning, wasPending, last>>

schedVars == <<running, execShutdown, pollShutdown>>
clientVars == <<pc, idx, wasRunning, wasPending, last>>
storeVars == <<status, articles>>

\* ------------------------------------------------------------------ pools
LoopIds == 1..Len(loops)
UnitIds == 1..Len(units)

ActiveLoopPcs == {"while", "find", "dispatch", "sleep", "tick"}
RunningUnitStates == {"execute", "mark"}

ActiveLoops == {i \in LoopIds : loops[i].pc \in ActiveLoopPcs}
QueuedLoops == {i \in LoopIds : loops[i].pc = "queued"}
RunningUnits == {i \in UnitIds : units[i].state \in RunningUnitStates}
QueuedUnits == {i \in UnitIds : units[i].state = "queued"}

\* The work queue of a ThreadPoolExecutor is first in, first out.
IsHead(i, S) == i \in S /\ \A j \in S : i <= j

\* A pool that starts a thread for every submission.
ExecSlotAlways == TRUE

\* A pool thread is free, or can still be created.
PollSlotFree == Cardinality(ActiveLoops) < PollCapacity
ExecSlotFree == Cardinality(RunningUnits) < ExecCapacity

\* ThreadPoolExecutor.shutdown(wait=True) returns when every pool thread
\* has exited: the queue is empty and nothing is running.
ExecDrained == QueuedUnits = {} /\ RunningUnits = {}
PollDrained == QueuedLoops = {} /\ ActiveLoops = {}

\* ---------------------------------------------------------------- gateways
\* EndpointDataGateway.find_ready / EndpointWorkFinder.find_requested: one
\* task per endpoint whose status is "ready", whatever the worker.
\* A find_ready that does not look at the status.
IsReadyAlways(e) == TRUE

IsReady(e) == status[e] = "ready"
FindRequested(w) == SelectSeq(EndpointList, IsReady)

\* A mark_completed that flips the status instead of setting it.
MarkedStatusFlips(endpoint) ==
    [e \in Endpoints |->
        IF e # endpoint THEN status[e]
        ELSE IF status[e] = "ready" THEN "completed" ELSE "ready"]

\* EndpointDataGateway.mark_completed
MarkedStatus(endpoint) ==
    [e \in Endpoints |-> IF e = endpoint THEN "completed" ELSE status[e]]

Init ==
    /\ running = FALSE
    /\ execShutdown = FALSE
    /\ pollShutdown = FALSE
    /\ loops = <<>>
    /\ units = <<>>
    /\ status = [e \in Endpoints |-> "ready"]
    /\ articles = InitialArticles
    /\ pc = [c \in Callers |-> IF c = "main" THEN "idle" ELSE "absent"]
    /\ idx = [c \in Callers |-> 0]
    /\ wasRunning = [c \in Callers |-> FALSE]
    /\ wasPending = [c \in Callers |-> 0]
    /\ last = [c \in Callers |-> "none"]

\* ------------------------------------------------------------------ start()
\* Where a client thread is once its call has returned or raised: the main
\* thread may call again, the second thread was started for one call.
Ret(c) == IF c = "main" THEN "idle" ELSE "absent"

\* start() without its check of the flag.
StartNeverRunning == FALSE

\* `if self.running:`
StartAlreadyRunning == running

\* start() while running: prints a warning and returns.
StartNoop(c) ==
    /\ pc[c] = "idle"
    /\ StartAlreadyRunning
    /\ last' = [last EXCEPT ![c] = "start_noop"]
    /\ pc' = [pc EXCEPT ![c] = Ret(c)]
    /\ UNCHANGED <<schedVars, loops, units, storeVars, idx, wasRunning,
                   wasPending>>

\* start() while not running: passes the check.
StartEnter(c) ==
    /\ pc[c] = "idle"
    /\ ~StartAlreadyRunning
    /\ pc' = [pc EXCEPT ![c] = "start_set"]
    /\ last' = [last EXCEPT ![c] = "none"]
    /\ UNCHANGED <<schedVars, loops, units, storeVars, idx, wasRunning,
                   wasPending>>

\* `self.running = True`
StartSet(c) ==
    /\ pc[c] = "start_set"
    /\ running' = TRUE
    /\ pc' = [pc EXCEPT ![c] = "start_submit"]
    /\ idx' = [idx EXCEPT ![c] = 1]
    /\ UNCHANGED <<execShutdown, pollShutdown, loops, units, storeVars,
                   wasRunning, wasPending, last>>

NewLoop(w) ==
    [worker |-> w, pc |-> "queued", tasks |-> <<>>, tick |-> 0,
     raised |-> FALSE]

\* `self.polling_pool.submit(self._check_for_work_loop, worker)`
StartSubmit(c) ==
    /\ pc[c] = "start_submit"
    /\ ~pollShutdown
    /\ loops' = Append(loops, NewLoop(WorkerList[idx[c]]))
    /\ IF idx[c] < Len(WorkerList)
          THEN /\ idx' = [idx EXCEPT ![c] = idx[c] + 1]
               /\ UNCHANGED <<pc, last>>
          ELSE /\ idx' = [idx EXCEPT ![c] = 0]
               /\ pc' = [pc EXCEPT ![c] = Ret(c)]
               /\ last' = [last EXCEPT ![c] = "start_ok"]
    /\ UNCHANGED <<schedVars, units, storeVars, wasRunning, wasPending>>

\* submit() on a pool that was shut down raises RuntimeError, which start()
\* does not catch.
StartSubmitRaises(c) ==
    /\ pc[c] = "start_submit"
    /\ pollShutdown
    /\ idx' = [idx EXCEPT ![c] = 0]
    /\ pc' = [pc EXCEPT ![c] = Ret(c)]
    /\ last' = [last EXCEPT ![c] = "start_raised"]
    /\ UNCHANGED <<schedVars, loops, units, storeVars, wasRunning,
                   wasPending>>

\* --------------------------------------------------------------- shutdown()
\* `self.running = False`
ShutdownSet(c) ==
    /\ pc[c] = "idle"
    /\ c = "main"
    /\ wasRunning' = [wasRunning EXCEPT ![c] = running]
    /\ wasPending' =
           [wasPending EXCEPT ![c] = Cardinality(QueuedUnits \cup RunningUnits)]
    /\ running' = FALSE
    /\ pc' = [pc EXCEPT ![c] = "sd_exec"]
    /\ last' = [last EXCEPT ![c] = "none"]
    /\ UNCHANGED <<execShutdown, pollShutdown, loops, units, storeVars, idx>>

\* execution_pool.shutdown(wait=True): the pool stops accepting
\* submissions; what is queued stays queued.
ExecShutdown(c) ==
    /\ pc[c] = "sd_exec"
    /\ execShutdown' = TRUE
    /\ pc' = [pc EXCEPT ![c] = "sd_exec_join"]
    /\ UNCHANGED <<running, pollShutdown, loops, units, storeVars, idx,
                   wasRunning, wasPending, last>>

\* shutdown(wait=False): the caller does not join.
ExecJoinNoWait == TRUE

\* ... and the caller joins the pool's threads.
ExecJoinReady == ExecDrained

ExecJoin(c) ==
    /\ pc[c] = "sd_exec_join"
    /\ ExecJoinReady
    /\ pc' = [pc EXCEPT ![c] = "sd_poll"]
    /\ UNCHANGED <<schedVars, loops, units, storeVars, idx, wasRunning,
                   wasPending, last>>

\* polling_pool.shutdown(wait=True)
PollShutdown(c) ==
    /\ pc[c] = "sd_poll"
    /\ pollShutdown' = TRUE
    /\ pc' = [pc EXCEPT ![c] = "sd_poll_join"]
    /\ UNCHANGED <<running, execShutdown, loops, units, storeVars, idx,
                   wasRunning, wasPending, last>>

\* polling_pool.shutdown(wait=False): the caller does not join.
PollJoinNoWait == TRUE

\* ... and the caller joins the pool's threads.
PollJoinReady == PollDrained

PollJoin(c) ==
    /\ pc[c] = "sd_poll_join"
    /\ PollJoinReady
    /\ pc' = [pc EXCEPT ![c] = "idle"]
    /\ wasRunning' = [wasRunning EXCEPT ![c] = FALSE]
    /\ wasPending' = [wasPending EXCEPT ![c] = 0]
    /\ last' = [last EXCEPT ![c] = "shutdown"]
    /\ UNCHANGED <<schedVars, loops, units, storeVars, idx>>

\* --------------------------------------------------- _check_for_work_loop
SetLoop(i, r) == loops' = [loops EXCEPT ![i] = r]

\* A polling-pool thread takes the loop from the pool's queue.
PoolStartLoop(i) ==
    /\ IsHead(i, QueuedLoops)
    /\ PollSlotFree
    /\ SetLoop(i, [loops[i] EXCEPT !.pc = "while"])
    /\ UNCHANGED <<schedVars, units, storeVars, clientVars>>

\* `while self.running:` found false: the loop returns.
LoopExit(i) ==
    /\ loops[i].pc = "while"
    /\ ~running
    /\ SetLoop(i, [loops[i] EXCEPT !.pc = "exited"])
    /\ UNCHANGED <<schedVars, units, storeVars, clientVars>>

\* Units the polls now under way may still submit, and a poll that begins
\* now: a poll begins only while the model's budget of units covers them.
Reserved ==
    LET ready == Len(FindRequested(0))
        polling == {j \in LoopIds : loops[j].pc = "find"}
        dispatching == {j \in LoopIds : loops[j].pc = "dispatch"}
    IN  ready * (Cardinality(polling) + 1)
          + Cardinality(dispatching) * Len(EndpointList)
WithinBudget == Len(units) + Reserved <= MaxUnits

\* `while self.running:` found true: the next poll cycle begins.
LoopEnter(i) ==
    /\ loops[i].pc = "while"
    /\ running
    /\ WithinBudget
    /\ SetLoop(i, [loops[i] EXCEPT !.pc = "find"])
    /\ UNCHANGED <<schedVars, units, storeVars, clientVars>>

\* `tasks = self.finder.find_requested(worker.name)` returns.
LoopFind(i) ==
    /\ loops[i].pc = "find"
    /\ LET tasks == FindRequested(loops[i].worker)
       IN  SetLoop(i, [loops[i] EXCEPT
                          !.tasks = tasks,
                          !.raised = FALSE,
                          !.pc = IF tasks = <<>> THEN "sleep" ELSE "dispatch"])
    /\ UNCHANGED <<schedVars, units, storeVars, clientVars>>

\* A loop without its `try`: the exception ends it.
LoopFindKills(i) ==
    /\ loops[i].pc = "find"
    /\ SetLoop(i, [loops[i] EXCEPT !.raised = TRUE, !.pc = "exited"])
    /\ UNCHANGED <<schedVars, units, storeVars, clientVars>>

\* find_requested raises: `except Exception` of the loop catches it and the
\* loop goes on to its sleep.
LoopFindRaises(i) ==
    /\ loops[i].pc = "find"
    /\ SetLoop(i, [loops[i] EXCEPT !.raised = TRUE, !.pc = "sleep"])
    /\ UNCHANGED <<schedVars, units, storeVars, clientVars>>

\* The work item of _execute_task(worker, task). The worker is left out:
\* every worker is an EndpointWorker over the same RestTemplate and the
\* same ArticleDataGateway, and _execute_task uses it for nothing else.
NewUnit(task) ==
    [task |-> task, state |-> "queued", outcome |-> "none", marked |-> FALSE]

\* A pool whose submit() waits for a free slot.
ExecAcceptsWhenFree == ~execShutdown /\ ExecSlotFree

\* submit() puts the work item on the pool's unbounded queue and returns.
ExecAccepts == ~execShutdown

\* A loop that marks the item completed when it dispatches it.
LoopSubmitClaims(i) ==
    /\ loops[i].pc = "dispatch"
    /\ ExecAccepts
    /\ units' = Append(units, NewUnit(Head(loops[i].tasks)))
    /\ status' = MarkedStatus(Head(loops[i].tasks))
    /\ LET rest == Tail(loops[i].tasks)
       IN  SetLoop(i, [loops[i] EXCEPT
                          !.tasks = rest,
                          !.pc = IF rest = <<>> THEN "sleep" ELSE "dispatch"])
    /\ UNCHANGED <<schedVars, articles, clientVars>>

\* `self.execution_pool.submit(self._execute_task, worker, task)`
LoopSubmit(i) ==
    /\ loops[i].pc = "dispatch"
    /\ ExecAccepts
    /\ units' = Append(units, NewUnit(Head(loops[i].tasks)))
    /\ LET rest == Tail(loops[i].tasks)
       IN  SetLoop(i, [loops[i] EXCEPT
                          !.tasks = rest,
                          !.pc = IF rest = <<>> THEN "sleep" ELSE "dispatch"])
    /\ UNCHANGED <<schedVars, storeVars, clientVars>>

\* A submit() that waits on a pool that was shut down: the loop stays at
\* the call.
LoopSubmitBlocks(i) ==
    /\ loops[i].pc = "dispatch"
    /\ execShutdown
    /\ FALSE
    /\ UNCHANGED vars

\* submit() after execution_pool.shutdown() raises RuntimeError: caught by
\* the loop's `except Exception`, the rest of the tasks is not submitted.
LoopSubmitRaises(i) ==
    /\ loops[i].pc = "dispatch"
    /\ execShutdown
    /\ SetLoop(i, [loops[i] EXCEPT !.tasks = <<>>, !.pc = "sleep"])
    /\ UNCHANGED <<schedVars, units, storeVars, clientVars>>

\* `for _ in range(self.delay_seconds): if not self.running: break`
\* The loop's pc is "sleep" at the first check of the flag and "tick" inside
\* time.sleep(1); `tick` counts the calls of time.sleep(1) that returned.
\* The first check finds the flag true: time.sleep(1) begins.
LoopSleep(i) ==
    /\ loops[i].pc = "sleep"
    /\ running
    /\ SetLoop(i, [loops[i] EXCEPT !.pc = "tick"])
    /\ UNCHANGED <<schedVars, units, storeVars, clientVars>>

\* A sleep of delay_seconds that does not look at the flag between ticks.
LoopTickUnchecked(i) ==
    /\ loops[i].pc = "tick"
    /\ loops[i].tick + 1 < DelaySeconds
    /\ SetLoop(i, [loops[i] EXCEPT !.tick = @ + 1])
    /\ UNCHANGED <<schedVars, units, storeVars, clientVars>>

\* time.sleep(1) returns, a tick is left and the flag is found true: the
\* next time.sleep(1) begins.
LoopTick(i) ==
    /\ loops[i].pc = "tick"
    /\ loops[i].tick + 1 < DelaySeconds
    /\ running
    /\ SetLoop(i, [loops[i] EXCEPT !.tick = @ + 1])
    /\ UNCHANGED <<schedVars, units, storeVars, clientVars>>

\* The sleep ends: the first check finds the flag false, or time.sleep(1)
\* returns and that was the last tick or the flag is found false (`break`).
LoopWake(i) ==
    /\ \/ loops[i].pc = "sleep" /\ ~running
       \/ /\ loops[i].pc = "tick"
          /\ loops[i].tick + 1 = DelaySeconds \/ ~running
    /\ SetLoop(i, [loops[i] EXCEPT !.pc = "while", !.tick = 0])
    /\ UNCHANGED <<schedVars, units, storeVars, clientVars>>

\* ----------------------------------------------------------- _execute_task
SetUnit(i, r) == units' = [units EXCEPT ![i] = r]

\* An execution-pool thread takes the unit from the pool's queue.
PoolStartUnit(i) ==
    /\ IsHead(i, QueuedUnits)
    /\ ExecSlotFree
    /\ SetUnit(i, [units[i] EXCEPT !.state = "execute"])
    /\ UNCHANGED <<schedVars, loops, storeVars, clientVars>>

\* worker.execute(task) returns: the feed was fetched and
\* article_gateway.save appended one article.
ExecuteOk(i) ==
    /\ units[i].state = "execute"
    /\ articles' = articles + 1
    /\ SetUnit(i, [units[i] EXCEPT !.state = "mark", !.outcome = "ok"])
    /\ UNCHANGED <<schedVars, loops, status, clientVars>>

\* _execute_task without its `try`: the unit never ends and keeps its slot.
AfterRaiseStuck(u) == [u EXCEPT !.outcome = "raised"]

\* _execute_task with a retry: the failed unit goes back on the queue.
AfterRaiseRequeued(u) == [u EXCEPT !.state = "queued", !.outcome = "raised"]

\* State of a unit whose worker.execute(task) raised: `except Exception`
\* of _execute_task prints and the unit ends.
AfterRaise(u) == [u EXCEPT !.state = "done", !.outcome = "raised"]

\* mark_completed in a `finally`: called after a failed execute too.
ExecuteRaisesMarks(i) ==
    /\ units[i].state = "execute"
    /\ status' = MarkedStatus(units[i].task)
    /\ SetUnit(i, [units[i] EXCEPT !.state = "done", !.outcome = "raised",
                                   !.marked = TRUE])
    /\ UNCHANGED <<schedVars, loops, articles, clientVars>>

\* An execute that saves its article before the fetch, which then fails.
ExecuteRaisesAfterSave(i) ==
    /\ units[i].state = "execute"
    /\ articles' = articles + 1
    /\ SetUnit(i, AfterRaise(units[i]))
    /\ UNCHANGED <<schedVars, loops, status, clientVars>>

\* worker.execute(task) raises (rest_template.get failed).
ExecuteRaises(i) ==
    /\ units[i].state = "execute"
    /\ SetUnit(i, AfterRaise(units[i]))
    /\ UNCHANGED <<schedVars, loops, storeVars, clientVars>>

\* _execute_task without its call of mark_completed: the unit just ends.
MarkCompletedSkipped(i) ==
    /\ units[i].state = "mark"
    /\ SetUnit(i, [units[i] EXCEPT !.state = "done"])
    /\ UNCHANGED <<schedVars, loops, storeVars, clientVars>>

\* `self.finder.mark_completed(task)`, and the unit ends.
MarkCompleted(i) ==
    /\ units[i].state = "mark"
    /\ status' = MarkedStatus(units[i].task)
    /\ SetUnit(i, [units[i] EXCEPT !.state = "done", !.marked = TRUE])
    /\ UNCHANGED <<schedVars, loops, articles, clientVars>>

\* ------------------------------------------------------------------- Next
Next ==
    \/ \E c \in Callers : StartNoop(c)
    \/ \E c \in Callers : StartEnter(c)
    \/ \E c \in Callers : StartSet(c)
    \/ \E c \in Callers : StartSubmit(c)
    \/ \E c \in Callers : StartSubmitRaises(c)
    \/ \E c \in Callers : ShutdownSet(c)
    \/ \E c \in Callers : ExecShutdown(c)
    \/ \E c \in Callers : ExecJoin(c)
    \/ \E c \in Callers : PollShutdown(c)
    \/ \E c \in Callers : PollJoin(c)
    \/ \E i \in LoopIds : PoolStartLoop(i)
    \/ \E i \in LoopIds : LoopExit(i)
    \/ \E i \in LoopIds : LoopEnter(i)
    \/ \E i \in LoopIds : LoopFind(i)
    \/ \E i \in LoopIds : LoopFindRaises(i)
    \/ \E i \in LoopIds : LoopSubmit(i)
    \/ \E i \in LoopIds : LoopSubmitRaises(i)
    \/ \E i \in LoopIds : LoopSleep(i)
    \/ \E i \in LoopIds : LoopTick(i)
    \/ \E i \in LoopIds : LoopWake(i)
    \/ \E i \in UnitIds : PoolStartUnit(i)
    \/ \E i \in UnitIds : ExecuteOk(i)
    \/ \E i \in UnitIds : ExecuteRaises(i)
    \/ \E i \in UnitIds : MarkCompleted(i)

\* One client thread: every call of start() and shutdown() is made by
\* the main thread, one after the other.
Spec == Init /\ [][Next]_vars

\* Two client threads, whose calls may overlap.
InitRace ==
    /\ running = FALSE
    /\ execShutdown = FALSE
    /\ pollShutdown = FALSE
    /\ loops = <<>>
    /\ units = <<>>
    /\ status = [e \in Endpoints |-> "ready"]
    /\ articles = InitialArticles
    /\ pc = [c \in Callers |-> "idle"]
    /\ idx = [c \in Callers |-> 0]
    /\ wasRunning = [c \in Callers |-> FALSE]
    /\ wasPending = [c \in Callers |-> 0]
    /\ last = [c \in Callers |-> "none"]

SpecRace == InitRace /\ [][Next]_vars

\* The steps of the polling-pool thread that runs loop i, and of the
\* execution-pool thread that runs unit i.
LoopThread(i) ==
    /\ i \in LoopIds
    /\ \/ PoolStartLoop(i) \/ LoopExit(i) \/ LoopEnter(i)
       \/ LoopFind(i) \/ LoopFindRaises(i)
       \/ LoopSubmit(i) \/ LoopSubmitRaises(i)
       \/ LoopSleep(i) \/ LoopTick(i) \/ LoopWake(i)

UnitThread(i) ==
    /\ i \in UnitIds
    /\ \/ PoolStartUnit(i) \/ ExecuteOk(i) \/ ExecuteRaises(i)
       \/ MarkCompleted(i)

\* One client thread, and the pool threads scheduled again and again: a
\* polling thread that can take a step is not kept from it for ever, and
\* the execution pool's threads are not all kept from their steps for ever
\* (units end after a few steps, so each of them gets its turn). The client
\* is free to make no further call.
Fairness ==
    /\ \A i \in 1..PollCapacity : WF_vars(LoopThread(i))
    /\ WF_vars(\E i \in UnitIds : UnitThread(i))

SpecFair == Init /\ [][Next]_vars /\ Fairness

\* EndpointDataGateway.reset_all_to_ready: every endpoint is made ready
\* again. The scheduler never calls it; it is the gateway's operation for
\* whoever administers the work source between polling cycles.
\* The model lets the reset happen only while the budget of units covers
\* the polls under way and one more, all of which then find every item.
ResetAllToReady ==
    /\ LET busy == {j \in LoopIds : loops[j].pc \in {"find", "dispatch"}}
       IN  Len(units) + Len(EndpointList) * (Cardinality(busy) + 1) <= MaxUnits
    /\ status' = [e \in Endpoints |-> "ready"]
    /\ UNCHANGED <<schedVars, loops, units, articles, clientVars>>

NextReset ==
    \/ Next
    \/ ResetAllToReady

\* One client thread, and the work source reset at any time.
SpecReset == Init /\ [][NextReset]_vars

\* ------------------------------------------------------------ properties
UnitsFor(e) == {i \in UnitIds : units[i].task = e}
LoopsFor(w) == {i \in LoopIds : loops[i].worker = w}
LiveLoopsFor(w) == {i \in LoopsFor(w) : loops[i].pc # "exited"}

\* _execute_task ran to its end: execute returned and the completion was
\* marked, or execute raised and the exception was caught.
RanToEnd(u) ==
    /\ u.state = "done"
    /\ \/ u.outcome = "ok" /\ u.marked
       \/ u.outcome = "raised" /\ ~u.marked

\* The client's shutdown() is past execution_pool.shutdown(wait=True).
PastExecJoin(c) == pc[c] \in {"sd_poll", "sd_poll_join"}

\* C1: shutdown drains. Once a shutdown() call is past its wait for the
\* execution pool, and after it has returned, every unit submitted, those
\* queued or running when the call was made included, has run
\* _execute_task to its end; none is left queued, running or dropped.
C1_ShutdownDrains ==
    \A c \in Callers :
        (PastExecJoin(c) \/ last[c] = "shutdown") =>
            \A i \in UnitIds : RanToEnd(units[i])

\* A shutdown() call is past its wait although units were queued and
\* running when it was made.
C1_Witness ==
    \E c \in Callers :
        /\ PastExecJoin(c)
        /\ wasPending[c] >= 2

\* C2: start() is idempotent for one client. Whenever a start() call of the
\* main thread has returned, as the call that submitted the loops or as a
\* call made while the scheduler was running, the flag is true and no
\* worker has more than one polling loop submitted; on a scheduler whose
\* pools were not shut down before, every worker has exactly one.
C2_StartIdempotent ==
    (pc["main"] = "idle" /\ last["main"] \in {"start_ok", "start_noop"}) =>
        /\ running
        /\ \A w \in Workers : Cardinality(LoopsFor(w)) <= 1
        /\ ~pollShutdown => \A w \in Workers : Cardinality(LoopsFor(w)) = 1

\* A second start() has returned as a no-op.
C2_Witness ==
    /\ pc["main"] = "idle"
    /\ last["main"] = "start_noop"
    /\ \A w \in Workers : LoopsFor(w) # {}

\* C3 (as claimed): for every worker at most one polling loop is submitted
\* or active, whatever the interleaving of start() and shutdown() calls.
C3_OneLoopPerWorker ==
    \A w \in Workers : Cardinality(LiveLoopsFor(w)) <= 1

\* A step of client c inside shutdown().
ShutdownStep(c) ==
    \/ ShutdownSet(c)
    \/ ExecShutdown(c)
    \/ ExecJoin(c)
    \/ PollShutdown(c)
    \/ PollJoin(c)

\* The flag was false when client c called shutdown().
CalledWhenStopped(c) == IF pc[c] = "idle" THEN ~running ELSE ~wasRunning[c]

\* C4 (as claimed): no step of a shutdown() call made while the scheduler
\* was not running changes the flag or stops a pool from accepting
\* submissions.
C4_ShutdownWhenStoppedIsNoop ==
    [][\A c \in Callers :
          (ShutdownStep(c) /\ CalledWhenStopped(c)) =>
              UNCHANGED <<running, execShutdown, pollShutdown>>]_vars

\* C5: bounded dispatch. The units running _execute_task never outnumber
\* the execution pool's capacity, and every other unit that has not ended
\* is waiting in the pool's queue.
C5_BoundedDispatch ==
    /\ Cardinality(RunningUnits) <= ExecCapacity
    /\ \A i \in UnitIds :
          units[i].state # "done" => i \in RunningUnits \cup QueuedUnits
    /\ \A i \in QueuedUnits : units[i].outcome = "none"

\* More units were dispatched than the pool has slots: every slot is
\* occupied and a unit waits.
C5_Witness ==
    /\ Cardinality(RunningUnits) = ExecCapacity
    /\ QueuedUnits # {}
    /\ Len(units) > ExecCapacity

\* C6 (as claimed): while every slot of the execution pool is occupied no
\* submission completes, the polling thread being blocked.
C6_SubmitBlocksWhenSaturated ==
    [][Cardinality(RunningUnits) = ExecCapacity =>
          Len(units') = Len(units)]_vars

\* C6 (amended): no back-pressure. A loop that is about to submit a task is
\* never blocked while the execution pool accepts submissions, however many
\* slots are occupied: the unit is queued and the loop goes on.
C6_SubmitNeverBlocks ==
    \A i \in LoopIds :
        (loops[i].pc = "dispatch" /\ ~execShutdown) => ENABLED LoopSubmit(i)

\* Every slot is occupied, a unit is queued behind them, and the loops
\* that submitted have gone on to their sleep.
C6_Witness ==
    /\ Cardinality(RunningUnits) = ExecCapacity
    /\ QueuedUnits # {}
    /\ \A i \in LoopIds : loops[i].pc = "sleep"

\* C7 (as claimed): at most one execution unit is ever dispatched for an
\* item.
C7_SingleExecution ==
    \A e \in Endpoints : Cardinality(UnitsFor(e)) <= 1

\* C7 (amended): an item is marked completed only after an execution unit
\* has run against it with success and marked it; further units for the
\* same item, dispatched while it was ready, are not excluded.
C7_CompletedAfterSuccess ==
    \A e \in Endpoints :
        status[e] = "completed" =>
            \E i \in UnitsFor(e) :
                units[i].outcome = "ok" /\ units[i].marked

\* The item is completed and two units were dispatched for it.
C7_Witness ==
    \E e \in Endpoints :
        /\ status[e] = "completed"
        /\ Cardinality(UnitsFor(e)) >= 2

\* Loop i takes a step.
LoopStep(i) == loops'[i] # loops[i]

\* C8: poll isolation. A poll that raises takes the loop to its sleep; the
\* loop whose poll raised leaves the sleep only for the check of the flag,
\* goes from there to its next poll when the flag is true, and a loop ends
\* only at the check of the flag, finding it false.
C8_PollIsolation ==
    [][\A i \in LoopIds :
          /\ (loops[i].pc = "find" /\ LoopStep(i) /\ loops'[i].raised) =>
                 loops'[i].pc = "sleep" /\ loops'[i].tick = 0
          /\ (loops[i].raised /\ loops[i].pc \in {"sleep", "tick"}
                 /\ LoopStep(i)) =>
                 loops'[i].pc \in {"tick", "while"} /\ loops'[i].raised
          /\ (loops[i].raised /\ loops[i].pc = "while" /\ LoopStep(i)
                 /\ running) =>
                 loops'[i].pc = "find" /\ loops'[i].raised
          /\ (loops[i].pc # "exited" /\ loops'[i].pc = "exited") =>
                 loops[i].pc = "while" /\ ~running]_vars

\* A loop is at its next poll after a poll that raised.
C8_Witness ==
    \E i \in LoopIds : loops[i].pc = "find" /\ loops[i].raised

\* C9: execution isolation. The step in which worker.execute raises for a
\* unit ends that unit, freeing its slot, and changes nothing else: no
\* other unit, no pool, no gateway. A unit whose execute succeeded is
\* never ended without its completion being marked.
C9_ExecutionIsolation ==
    /\ [][\A i \in UnitIds :
             (units[i].outcome = "none" /\ units'[i].outcome = "raised") =>
                 /\ units'[i].state = "done"
                 /\ \A j \in UnitIds \ {i} : units'[j] = units[j]
                 /\ Len(units') = Len(units)
                 /\ UNCHANGED <<schedVars, loops, storeVars>>]_vars
    /\ [](\A i \in UnitIds :
             (units[i].outcome = "ok" /\ units[i].state = "done") =>
                 units[i].marked)

\* One unit failed and another unit completed and was marked.
C9_Witness ==
    \E i, j \in UnitIds :
        /\ i # j
        /\ units[i].outcome = "raised"
        /\ units[j].outcome = "ok"
        /\ units[j].marked

\* C10: completion follows success only. A unit is at mark_completed, or
\* past it, only if its execute returned; a unit whose execute raised is
\* never marked; and the status of an item changes only in the step in
\* which a unit whose execute returned marks it.
C10_CompletionAfterSuccess ==
    /\ [](\A i \in UnitIds :
             /\ (units[i].state = "mark" \/ units[i].marked) =>
                    units[i].outcome = "ok"
             /\ units[i].outcome = "raised" => ~units[i].marked)
    /\ [][status' # status =>
             \E i \in UnitIds :
                 /\ units[i].outcome = "ok"
                 /\ ~units[i].marked
                 /\ units'[i].marked
                 /\ status' = MarkedStatus(units[i].task)]_vars

\* Every unit dispatched for an item failed, and the item is still ready.
C10_Witness ==
    \E e \in Endpoints :
        /\ status[e] = "ready"
        /\ UnitsFor(e) # {}
        /\ \A i \in UnitsFor(e) : units[i].outcome = "raised"

\* The client is inside shutdown(), past `self.running = False`.
InShutdown(c) == pc[c] \in {"sd_exec", "sd_exec_join", "sd_poll", "sd_poll_join"}

\* C11: shutdown latency bound. While the flag is false, a loop inside
\* time.sleep(1) leaves the sleep when that tick returns and a loop at the
\* first check leaves it at once, neither beginning another tick; from the
\* check of `while self.running` the loop then exits. So a sleeping loop
\* sleeps at most the one tick under way when the flag was cleared, whatever
\* delay_seconds is.
C11_ShutdownLatency ==
    [][\A i \in LoopIds :
          (~running /\ LoopStep(i)) =>
              /\ loops[i].pc \in {"sleep", "tick"} =>
                     loops'[i].pc = "while" /\ loops'[i].tick = 0
              /\ loops[i].pc = "while" => loops'[i].pc = "exited"]_vars

\* shutdown() has cleared the flag while a loop is inside the first
\* time.sleep(1) of a delay of more than one tick.
C11_Witness ==
    /\ InShutdown("main")
    /\ ~running
    /\ \E i \in LoopIds :
          loops[i].pc = "tick" /\ loops[i].tick + 1 < DelaySeconds

\* C12: quiescence after shutdown. In the state in which shutdown() has
\* returned no polling loop is queued or active and no execution unit is
\* queued or running; and once both pools are shut down and drained, no
\* step makes a loop or a unit queued or active again.
C12_Quiescence ==
    /\ [](\A c \in Callers :
             last[c] = "shutdown" => PollDrained /\ ExecDrained)
    /\ [][(pollShutdown /\ execShutdown /\ PollDrained /\ ExecDrained) =>
             (PollDrained' /\ ExecDrained')]_vars

\* shutdown() has returned on a scheduler whose loops ran and dispatched
\* units.
C12_Witness ==
    /\ last["main"] = "shutdown"
    /\ \A w \in Workers : LoopsFor(w) # {}
    /\ units # <<>>

\* C13 (as claimed): Stopped is terminal. Once a shutdown() call has shut
\* the pools down, the flag is false and no later call of start() or
\* shutdown() makes it true again.
C13_StoppedIsTerminal ==
    (execShutdown /\ pollShutdown) => ~running

\* C14 (as claimed): no call of start() or shutdown() ends by raising an
\* exception to its caller, in any sequence of calls on one instance.
C14_NoErrorExposed ==
    \A c \in Callers : last[c] # "start_raised"

\* An execution unit for the item has failed.
Failed(e) == \E i \in UnitsFor(e) : units[i].outcome = "raised"

\* The tasks a poll of loop i has just returned.
Returned(i) == {loops'[i].tasks[k] : k \in 1..Len(loops'[i].tasks)}

\* Loop i takes the step in which find_requested returns or raises.
PollStep(i) == loops[i].pc = "find" /\ LoopStep(i)

C16_CompletedExcluded ==
    /\ [][\A e \in Endpoints :
             (status[e] = "completed" /\ status'[e] # "completed") =>
                 ResetAllToReady]_vars
    /\ [][\A i \in LoopIds :
             (PollStep(i) /\ ~loops'[i].raised) =>
                 Returned(i) = {e \in Endpoints : status[e] = "ready"}]_vars

\* The item is completed by the only unit ever dispatched, and the loops
\* of both workers have each polled without raising and are asleep: one of
\* them at least polled after the completion and got no task.
C16_Witness ==
    /\ ~execShutdown
    /\ Len(units) = 1
    /\ \A e \in Endpoints : status[e] = "completed"
    /\ \A w \in Workers :
          \E i \in LoopsFor(w) :
              loops[i].pc \in {"sleep", "tick"} /\ ~loops[i].raised

\* Some statement of loop i can be executed.
LoopCanStep(i) ==
    ENABLED (\/ LoopExit(i) \/ LoopEnter(i)
             \/ LoopFind(i) \/ LoopSubmit(i) \/ LoopSubmitRaises(i)
             \/ LoopSleep(i) \/ LoopTick(i) \/ LoopWake(i))

\* C17: submission at the drain boundary fails fast. A loop at its submit
\* after the execution pool was shut down is not blocked: the call raises
\* at once; the step adds no unit, drops the loop's tasks and takes the
\* loop to its sleep, changing nothing else; and while shutdown() waits
\* with the flag false every active loop can take its next step, so the
\* wait for the polling pool is not deadlocked by a loop.
C17_SubmitFailsFast ==
    /\ [](\A i \in LoopIds :
             (loops[i].pc = "dispatch" /\ execShutdown) =>
                 ENABLED LoopSubmitRaises(i))
    /\ [][\A i \in LoopIds :
             (loops[i].pc = "dispatch" /\ execShutdown /\ LoopStep(i)) =>
                 /\ loops'[i].pc = "sleep"
                 /\ loops'[i].tasks = <<>>
                 /\ UNCHANGED <<units, schedVars, storeVars, clientVars>>]_vars
    /\ [](\A i \in ActiveLoops :
             (execShutdown /\ ~running) => LoopCanStep(i))

\* shutdown() has shut the execution pool down and waits, while a loop
\* that polled before holds a task for a ready item and is at its submit.
C17_Witness ==
    /\ InShutdown("main")
    /\ execShutdown
    /\ \E i \in LoopIds :
          /\ loops[i].pc = "dispatch"
          /\ IsReady(Head(loops[i].tasks))

\* C18: mark_completed is idempotent. A unit at mark_completed can always
\* make the call; the call leaves its item completed and every other item
\* as it was; and applied to an item that is already completed, by a unit
\* dispatched for the same item, it leaves the work source unchanged.
C18_MarkIdempotent ==
    /\ [](\A i \in UnitIds :
             units[i].state = "mark" => ENABLED MarkCompleted(i))
    /\ [][\A i \in UnitIds :
             (units[i].state = "mark" /\ units'[i] # units[i]) =>
                 /\ units'[i].marked
                 /\ status'[units[i].task] = "completed"
                 /\ \A e \in Endpoints \ {units[i].task} :
                       status'[e] = status[e]
                 /\ status[units[i].task] = "completed" =>
                       status' = status]_vars

\* Two units dispatched for the same item have both marked it completed.
C18_Witness ==
    \E i, j \in UnitIds :
        /\ i # j
        /\ units[i].task = units[j].task
        /\ units[i].marked
        /\ units[j].marked
        /\ status[units[i].task] = "completed"

\* worker.execute has succeeded for the item.
Succeeded(e) == \E i \in UnitsFor(e) : units[i].outcome = "ok"

\* The item is completed and no loop holds a task for it any more.
Settled(e) ==
    /\ status[e] = "completed"
    /\ \A i \in LoopIds :
          \A k \in 1..Len(loops[i].tasks) : loops[i].tasks[k] # e

\* The loop of worker w is at a poll.
Polling(w) == \E i \in LoopsFor(w) : loops[i].pc = "find"

ReturnedUnits == {i \in UnitIds : units[i].outcome = "ok"}
MarkedUnits == {i \in UnitIds : units[i].marked}

\* C20: storage and completion are linked. Every unit that marked a
\* completion is a unit whose execute returned, each of which saved one
\* article, and a unit whose execute raised saved none: the articles saved
\* by workers are as many as the units whose execute returned, and at
\* least as many as the completion marks.
C20_SavesMatchSuccesses ==
    /\ [](/\ MarkedUnits \subseteq ReturnedUnits
          /\ articles - InitialArticles = Cardinality(ReturnedUnits)
          /\ articles - InitialArticles >= Cardinality(MarkedUnits))
    /\ [][\A i \in UnitIds :
             /\ (units[i].outcome = "none" /\ units'[i].outcome = "ok") =>
                    articles' = articles + 1
             /\ (units[i].outcome = "none" /\ units'[i].outcome = "raised") =>
                    articles' = articles]_vars
    /\ [][articles' # articles =>
             \E j \in UnitIds :
                 units[j].outcome = "none" /\ units'[j].outcome = "ok"]_vars

\* One unit failed, one saved and marked, and one has saved and not yet
\* marked: more articles saved than completions marked.
C20_Witness ==
    /\ \E i \in UnitIds : units[i].outcome = "raised"
    /\ MarkedUnits # {}
    /\ Cardinality(ReturnedUnits) > Cardinality(MarkedUnits)
    /\ articles = InitialArticles + 2

====
